---- MODULE Spec2Model ----
(***************************************************************************)
(* Model of the example-lm-tools VS Code extension: the GetCurrentTimeTool *)
(* language-model tool (prepareInvocation / invoke), the helloWorld        *)
(* command and the activate / deactivate entry points, together with the   *)
(* host that calls them and the wall clock the tool reads.                 *)
(*                                                                         *)
(* An optional value (a property that may be absent, a local not yet       *)
(* assigned) is a sequence of length 0 or 1.  A text is the sequence of    *)
(* its segments; the JavaScript string is their concatenation (Render).    *)
(* The clock counts whole seconds since the epoch: toLocaleString with     *)
(* these options renders nothing finer than the second.                    *)
(***************************************************************************)
EXTENDS Integers, Sequences, FiniteSets, TLC

VARIABLES clock, timeZone, extension, lmTools, commands, subscriptions,
          calls, dateReads, shown

vars == <<clock, timeZone, extension, lmTools, commands, subscriptions,
          calls, dateReads, shown>>

(***************************************************************************)
(* Bounds of the model.                                                    *)
(***************************************************************************)
MaxCalls == 2
MaxTicks == 1
MaxCommands == 2

(***************************************************************************)
(* The environments the extension is loaded in: the instant the system     *)
(* clock shows (seconds since 1970-01-01T00:00:00Z) and the host's default *)
(* time zone.  toLocaleString is called without a timeZone option, so the  *)
(* runtime's zone decides the rendering.                                   *)
(*   1741010709  Monday, March 3, 2025, 14:05:09 in UTC                    *)
(*   1735657199  Tuesday, December 31, 2024, 23:59:59 in Asia/Tokyo        *)
(***************************************************************************)
Environments == {[clock |-> 1741010709, timeZone |-> "UTC"],
                 [clock |-> 1735657199, timeZone |-> "Asia/Tokyo"]}

StartInstants == {e.clock : e \in Environments}

TimeZones == {e.timeZone : e \in Environments}

UtcOffsetSeconds(tz) == IF tz = "Asia/Tokyo" THEN 32400 ELSE 0

ShortZoneName(tz) == IF tz = "Asia/Tokyo" THEN "GMT+9" ELSE "UTC"

ZoneNames == {ShortZoneName(tz) : tz \in TimeZones}

(***************************************************************************)
(* Date: the calendar fields of an instant in a time zone.                 *)
(***************************************************************************)
WeekdayNames == <<"Sunday", "Monday", "Tuesday", "Wednesday", "Thursday",
                  "Friday", "Saturday">>

MonthNames == <<"January", "February", "March", "April", "May", "June",
                "July", "August", "September", "October", "November",
                "December">>

\* Day number (days since 1970-01-01) to year, month, day of the proleptic
\* Gregorian calendar.
CivilFromDays(days) ==
    LET z   == days + 719468
        era == z \div 146097
        doe == z - era * 146097
        yoe == (doe - (doe \div 1460) + (doe \div 36524) - (doe \div 146096)) \div 365
        doy == doe - (365 * yoe + (yoe \div 4) - (yoe \div 100))
        mp  == (5 * doy + 2) \div 153
        d   == doy - ((153 * mp + 2) \div 5) + 1
        m   == IF mp < 10 THEN mp + 3 ELSE mp - 9
        y   == yoe + era * 400 + (IF m <= 2 THEN 1 ELSE 0)
    IN  [year |-> y, month |-> m, day |-> d]

DateFields(t, tz) ==
    LET local == t + UtcOffsetSeconds(tz)
        days  == local \div 86400
        sod   == local % 86400
        ymd   == CivilFromDays(days)
    IN  [weekday |-> (days + 4) % 7,
         year    |-> ymd.year,
         month   |-> ymd.month,
         day     |-> ymd.day,
         hour    |-> sod \div 3600,
         minute  |-> (sod % 3600) \div 60,
         second  |-> sod % 60]

(***************************************************************************)
(* Date.prototype.toLocaleString('en-US', options).                        *)
(***************************************************************************)
TwoDigit(n) == IF n < 10 THEN "0" \o ToString(n) ELSE ToString(n)

\* en-US uses the h12 hour cycle unless the options say otherwise.
HourCycle(options) ==
    IF "hour12" \in DOMAIN options /\ options["hour12"] = FALSE
    THEN "h23" ELSE "h12"

\* HourValue without the wrap of the 12-hour cycle.
HourValueNoWrap(h, cycle) == h

HourValue(h, cycle) ==
    IF cycle = "h23" THEN h
    ELSE IF h % 12 = 0 THEN 12 ELSE h % 12

DayPeriod(h) == IF h < 12 THEN "AM" ELSE "PM"

Part(type, value) == [type |-> type, value |-> value]

\* The literals between the fields are those of the en-US data of current
\* runtimes; older ICU data has ", " for " at ", newer data a narrow
\* no-break space before AM/PM.
FormatToParts(t, tz, options) ==
    LET cycle == HourCycle(options)
        Parts(f) ==
           << Part("weekday", WeekdayNames[f.weekday + 1]),
              Part("literal", ", "),
              Part("month", MonthNames[f.month]),
              Part("literal", " "),
              Part("day", ToString(f.day)),
              Part("literal", ", "),
              Part("year", ToString(f.year)),
              Part("literal", " at "),
              Part("hour", TwoDigit(HourValue(f.hour, cycle))),
              Part("literal", ":"),
              Part("minute", TwoDigit(f.minute)),
              Part("literal", ":"),
              Part("second", TwoDigit(f.second)) >>
           \o (IF cycle = "h12"
               THEN << Part("literal", " "), Part("dayPeriod", DayPeriod(f.hour)) >>
               ELSE << >>)
           \o (IF "timeZoneName" \in DOMAIN options
               THEN << Part("literal", " "), Part("timeZoneName", ShortZoneName(tz)) >>
               ELSE << >>)
    IN  \* the date fields are computed once and shared by all parts
        CHOOSE parts \in {Parts(f) : f \in {DateFields(t, tz)}} : TRUE

\* The string is the values of the parts, in order.  (The parts are bound
\* by a set constructor so that they are computed once.)
toLocaleString(t, tz, options) ==
    CHOOSE text \in {[k \in 1..Len(parts) |-> parts[k].value] :
                        parts \in {FormatToParts(t, tz, options)}} : TRUE

RECURSIVE Render(_)
Render(text) == IF text = << >> THEN "" ELSE Head(text) \o Render(Tail(text))

(***************************************************************************)
(* The values the tool receives and returns.                               *)
(***************************************************************************)
\* IGetTimeParameters: both properties are optional.
Formats == {"12h", "24h"}

QueryShape == [format          : {<< >>} \cup {<<f>> : f \in Formats},
               includeTimezone : {<< >>} \cup {<<b>> : b \in BOOLEAN}]

EmptyQuery == [format |-> << >>, includeTimezone |-> << >>]

\* The queries the host sends: the empty one and two that set both
\* properties, so that every value of each property occurs.
Queries == {EmptyQuery,
            [format |-> <<"12h">>, includeTimezone |-> <<TRUE>>],
            [format |-> <<"24h">>, includeTimezone |-> <<FALSE>>]}

CancellationToken(requested) == [isCancellationRequested |-> requested]

LanguageModelTextPart(value) == [value |-> value]

LanguageModelToolResult(content) == [content |-> content]

\* An async function that returns normally hands back a fulfilled promise.
Fulfilled(value) == [state |-> "fulfilled", value |-> value]

\* The options object invoke passes to toLocaleString.
InvokeOptions == [weekday |-> "long", year |-> "numeric", month |-> "long",
                  day |-> "numeric", hour |-> "2-digit", minute |-> "2-digit",
                  second |-> "2-digit", timeZoneName |-> "short"]

ResultPrefix == "The current date and time is: "

\* new Date(0) in place of new Date(): the epoch, whatever the clock shows.
NewDateEpoch(c) == 0

\* new Date(): the instant the system clock shows.
NewDate(c) == c

\* prepareInvocation with the optional confirmation dialog switched on.
PreparedToolInvocationConfirming(options, token) ==
    [invocationMessage    |-> "Getting current time",
     confirmationMessages |-> [title   |-> "Get Current Time",
                               message |-> "Retrieve the current date and time?"]]

\* The body of GetCurrentTimeTool.prepareInvocation: options and token are
\* not consulted.
PreparedToolInvocation(options, token) ==
    [invocationMessage |-> "Getting current time"]

\* invoke that returns the prefix and the time string as two text parts.
InvokeBodyTwoParts(options, token, now, tz) ==
    LET timeString == toLocaleString(now, tz, InvokeOptions)
    IN  LanguageModelToolResult(
            << LanguageModelTextPart(<<ResultPrefix>>),
               LanguageModelTextPart(timeString) >>)

\* invoke that consults options.input: the zone is rendered only when the
\* query asks for it.
InvokeBodyReadingInput(options, token, now, tz) ==
    LET timeString ==
           IF options.includeTimezone = <<TRUE>>
           THEN toLocaleString(now, tz, InvokeOptions)
           ELSE toLocaleString(now, tz,
                   [weekday |-> "long", year |-> "numeric", month |-> "long",
                    day |-> "numeric", hour |-> "2-digit",
                    minute |-> "2-digit", second |-> "2-digit"])
    IN  LanguageModelToolResult(
            << LanguageModelTextPart(<<ResultPrefix>> \o timeString) >>)

\* The body of GetCurrentTimeTool.invoke after the clock read: options and
\* token are not consulted.
InvokeBody(options, token, now, tz) ==
    LET timeString == toLocaleString(now, tz, InvokeOptions)
    IN  LanguageModelToolResult(
            << LanguageModelTextPart(<<ResultPrefix>> \o timeString) >>)

(***************************************************************************)
(* The minimal GetCurrentTimeTool class that extension.ts carries inline.  *)
(***************************************************************************)
MinimalPreparedToolInvocation(options, token) ==
    [invocationMessage |-> "Getting current time"]

\* The minimal invoke with the prefix of the developer guide's example.
MinimalInvokeBodyGuidePrefix(options, token, now, tz) ==
    LET timeString == toLocaleString(now, tz,
                         [weekday |-> "long", year |-> "numeric",
                          month |-> "long", day |-> "numeric",
                          hour |-> "2-digit", minute |-> "2-digit",
                          second |-> "2-digit", timeZoneName |-> "short"])
    IN  LanguageModelToolResult(
            << LanguageModelTextPart(<<"Current time: ">> \o timeString) >>)

MinimalInvokeBody(options, token, now, tz) ==
    LET timeString == toLocaleString(now, tz,
                         [weekday |-> "long", year |-> "numeric",
                          month |-> "long", day |-> "numeric",
                          hour |-> "2-digit", minute |-> "2-digit",
                          second |-> "2-digit", timeZoneName |-> "short"])
    IN  LanguageModelToolResult(
            << LanguageModelTextPart(
                  <<"The current date and time is: ">> \o timeString) >>)

(***************************************************************************)
(* Registration.                                                           *)
(***************************************************************************)
ToolName == "get_current_time"

CommandId == "example-lm-tools.helloWorld"

HelloMessage == "Hello World from Example LM Tools!"

Disposable(kind, id) == [kind |-> kind, id |-> id]

Phases == {"selected", "prepared", "invoked", "delivered"}

NewCall(q) == [input    |-> q,
               token    |-> CancellationToken(FALSE),
               phase    |-> "selected",
               prepared |-> << >>,
               now      |-> << >>,
               readAt   |-> << >>,
               promise  |-> << >>]

DeliveredCall == [phase |-> "delivered"]

Init ==
    /\ \E e \in Environments : clock = e.clock /\ timeZone = e.timeZone
    /\ extension = "inactive"
    /\ lmTools = {}
    /\ commands = {}
    /\ subscriptions = << >>
    /\ calls = << >>
    /\ dateReads = 0
    /\ shown = << >>

\* The wall clock advances on its own.
Tick ==
    /\ \E s \in StartInstants : s <= clock /\ clock < s + MaxTicks
    /\ clock' = clock + 1
    /\ UNCHANGED <<timeZone, extension, lmTools, commands, subscriptions,
                   calls, dateReads, shown>>

\* activate that registers the command without keeping its disposable.
activateDroppingDisposable ==
    /\ extension = "inactive"
    /\ lmTools' = lmTools \cup {[name |-> ToolName, tool |-> "GetCurrentTimeTool"]}
    /\ commands' = commands \cup {[command |-> CommandId, handler |-> "helloWorldCommand"]}
    /\ subscriptions' = Append(subscriptions, Disposable("tool", ToolName))
    /\ extension' = "active"
    /\ UNCHANGED <<clock, timeZone, calls, dateReads, shown>>

activate ==
    /\ extension = "inactive"
    /\ lmTools' = lmTools \cup {[name |-> ToolName, tool |-> "GetCurrentTimeTool"]}
    /\ commands' = commands \cup {[command |-> CommandId, handler |-> "helloWorldCommand"]}
    /\ subscriptions' = Append(Append(subscriptions, Disposable("tool", ToolName)),
                               Disposable("command", CommandId))
    /\ extension' = "active"
    /\ UNCHANGED <<clock, timeZone, calls, dateReads, shown>>

\* deactivate that unregisters the tool itself and leaves its disposable in
\* context.subscriptions.
deactivateUnregistering ==
    /\ extension = "active"
    /\ extension' = "deactivated"
    /\ lmTools' = {r \in lmTools : r.name # ToolName}
    /\ UNCHANGED <<clock, timeZone, commands, subscriptions, calls,
                   dateReads, shown>>

\* deactivate() has an empty body; the host marks the extension deactivated.
deactivate ==
    /\ extension = "active"
    /\ extension' = "deactivated"
    /\ UNCHANGED <<clock, timeZone, lmTools, commands, subscriptions, calls,
                   dateReads, shown>>

\* After deactivate() the host disposes what context.subscriptions holds.
disposeSubscriptions ==
    /\ extension = "deactivated"
    /\ subscriptions # << >>
    /\ lmTools' = {r \in lmTools :
                     \A k \in 1..Len(subscriptions) :
                        subscriptions[k] # Disposable("tool", r.name)}
    /\ commands' = {r \in commands :
                     \A k \in 1..Len(subscriptions) :
                        subscriptions[k] # Disposable("command", r.command)}
    /\ subscriptions' = << >>
    /\ UNCHANGED <<clock, timeZone, extension, calls, dateReads, shown>>

\* helloWorldCommand that shows its message twice.
helloWorldCommandTwice ==
    /\ \E r \in commands : r.command = CommandId
    /\ Len(shown) < MaxCommands
    /\ shown' = Append(Append(shown, HelloMessage), HelloMessage)
    /\ UNCHANGED <<clock, timeZone, extension, lmTools, commands,
                   subscriptions, calls, dateReads>>

helloWorldCommand ==
    /\ \E r \in commands : r.command = CommandId
    /\ Len(shown) < MaxCommands
    /\ shown' = Append(shown, HelloMessage)
    /\ UNCHANGED <<clock, timeZone, extension, lmTools, commands,
                   subscriptions, calls, dateReads>>

(***************************************************************************)
(* One tool invocation, as the host drives it.                             *)
(***************************************************************************)
\* The language model selects the tool and generates its parameters.
selectTool(q) ==
    /\ \E r \in lmTools : r.name = ToolName
    /\ Len(calls) < MaxCalls
    /\ calls' = Append(calls, NewCall(q))
    /\ UNCHANGED <<clock, timeZone, extension, lmTools, commands,
                   subscriptions, dateReads, shown>>

\* The caller raises the cancellation signal of a call not yet delivered.
cancel(i) ==
    /\ calls[i].phase # "delivered"
    /\ ~calls[i].token.isCancellationRequested
    /\ calls' = [calls EXCEPT ![i].token = CancellationToken(TRUE)]
    /\ UNCHANGED <<clock, timeZone, extension, lmTools, commands,
                   subscriptions, dateReads, shown>>

\* prepareInvocation that reads the clock to build its message.
prepareInvocationTimed(i) ==
    /\ calls[i].phase = "selected"
    /\ calls' = [calls EXCEPT
                   ![i].phase = "prepared",
                   ![i].prepared =
                       <<[invocationMessage |->
                            Render(toLocaleString(NewDate(clock), timeZone,
                                                  InvokeOptions))]>>]
    /\ dateReads' = dateReads + 1
    /\ UNCHANGED <<clock, timeZone, extension, lmTools, commands,
                   subscriptions, shown>>

prepareInvocation(i) ==
    /\ calls[i].phase = "selected"
    /\ calls' = [calls EXCEPT
                   ![i].phase = "prepared",
                   ![i].prepared =
                       <<PreparedToolInvocation(calls[i].input, calls[i].token)>>]
    /\ UNCHANGED <<clock, timeZone, extension, lmTools, commands,
                   subscriptions, dateReads, shown>>

\* The host asks the user first when the prepared invocation carries
\* confirmationMessages.
NeedsConfirmation(call) ==
    /\ call.phase = "prepared"
    /\ "confirmationMessages" \in DOMAIN call.prepared[1]

\* Steps 3 to 5 of the Tool Invocation Flow: the host calls invoke once
\* prepareInvocation has returned and, when the prepared invocation carries
\* confirmationMessages, once the user has confirmed.  The user's answer is
\* an input of the step that calls invoke.
HostMayInvoke(call, userConfirmed) ==
    /\ call.phase = "prepared"
    /\ NeedsConfirmation(call) => userConfirmed

\* invoke that keeps the first result and hands it back on later calls.
invokeCached(i) ==
    /\ \E userConfirmed \in BOOLEAN : HostMayInvoke(calls[i], userConfirmed)
    /\ LET now    == NewDate(clock)
           cached == {j \in 1..Len(calls) : calls[j].phase = "invoked"}
       IN  IF cached = {}
           THEN /\ calls' = [calls EXCEPT
                               ![i].phase = "invoked",
                               ![i].now = <<now>>,
                               ![i].readAt = <<clock>>,
                               ![i].promise =
                                   <<Fulfilled(InvokeBody(calls[i].input,
                                                          calls[i].token,
                                                          now, timeZone))>>]
                /\ dateReads' = dateReads + 1
           ELSE /\ calls' = [calls EXCEPT
                               ![i].phase = "invoked",
                               ![i].readAt = <<clock>>,
                               ![i].promise =
                                   calls[CHOOSE j \in cached : TRUE].promise]
                /\ dateReads' = dateReads
    /\ UNCHANGED <<clock, timeZone, extension, lmTools, commands,
                   subscriptions, shown>>

\* invoke that keeps `now` in a variable all calls share.
invokeSharedNow(i) ==
    /\ \E userConfirmed \in BOOLEAN : HostMayInvoke(calls[i], userConfirmed)
    /\ LET now == NewDate(clock)
       IN  calls' = [j \in 1..Len(calls) |->
                       IF j = i
                       THEN [calls[j] EXCEPT
                               !.phase = "invoked",
                               !.now = <<now>>,
                               !.readAt = <<clock>>,
                               !.promise =
                                   <<Fulfilled(InvokeBody(calls[j].input,
                                                          calls[j].token,
                                                          now, timeZone))>>]
                       ELSE [calls[j] EXCEPT !.now = <<now>>]]
    /\ dateReads' = dateReads + 1
    /\ UNCHANGED <<clock, timeZone, extension, lmTools, commands,
                   subscriptions, shown>>

\* invoke that, not trusting its first attempt, runs the body a second time
\* and returns the second result.
invokeRetrying(i) ==
    /\ \E userConfirmed \in BOOLEAN : HostMayInvoke(calls[i], userConfirmed)
    /\ LET first == NewDate(clock)
           now   == NewDate(clock)
       IN  calls' = [calls EXCEPT
                       ![i].phase = "invoked",
                       ![i].now = <<now>>,
                       ![i].readAt = <<clock>>,
                       ![i].promise =
                           <<Fulfilled(InvokeBody(calls[i].input, calls[i].token,
                                                  now, timeZone))>>]
    /\ dateReads' = dateReads + 2
    /\ UNCHANGED <<clock, timeZone, extension, lmTools, commands,
                   subscriptions, shown>>

\* invoke that validates its input first and rejects a query that states no
\* format.
invokeValidating(i) ==
    /\ \E userConfirmed \in BOOLEAN : HostMayInvoke(calls[i], userConfirmed)
    /\ LET now == NewDate(clock)
       IN  calls' = [calls EXCEPT
                       ![i].phase = "invoked",
                       ![i].now = <<now>>,
                       ![i].readAt = <<clock>>,
                       ![i].promise =
                           IF calls[i].input.format = << >>
                           THEN <<[state |-> "rejected",
                                   reason |-> "format is required"]>>
                           ELSE <<Fulfilled(InvokeBody(calls[i].input,
                                                       calls[i].token,
                                                       now, timeZone))>>]
    /\ dateReads' = dateReads + 1
    /\ UNCHANGED <<clock, timeZone, extension, lmTools, commands,
                   subscriptions, shown>>

\* invoke that takes a lock shared by all calls and holds it until its
\* result has been delivered: a call waits while another holds the lock.
invokeLocking(i) ==
    /\ \E userConfirmed \in BOOLEAN : HostMayInvoke(calls[i], userConfirmed)
    /\ \A j \in 1..Len(calls) : calls[j].phase # "invoked"
    /\ LET now == NewDate(clock)
       IN  calls' = [calls EXCEPT
                       ![i].phase = "invoked",
                       ![i].now = <<now>>,
                       ![i].readAt = <<clock>>,
                       ![i].promise =
                           <<Fulfilled(InvokeBody(calls[i].input, calls[i].token,
                                                  now, timeZone))>>]
    /\ dateReads' = dateReads + 1
    /\ UNCHANGED <<clock, timeZone, extension, lmTools, commands,
                   subscriptions, shown>>

invoke(i) ==
    /\ \E userConfirmed \in BOOLEAN : HostMayInvoke(calls[i], userConfirmed)
    /\ LET now == NewDate(clock)
       IN  calls' = [calls EXCEPT
                       ![i].phase = "invoked",
                       ![i].now = <<now>>,
                       ![i].readAt = <<clock>>,
                       ![i].promise =
                           <<Fulfilled(InvokeBody(calls[i].input, calls[i].token,
                                                  now, timeZone))>>]
    /\ dateReads' = dateReads + 1
    /\ UNCHANGED <<clock, timeZone, extension, lmTools, commands,
                   subscriptions, shown>>

\* The host hands the settled result to the language model; the call is
\* over and nothing of it is kept.
deliver(i) ==
    /\ calls[i].phase = "invoked"
    /\ calls' = [calls EXCEPT ![i] = DeliveredCall]
    /\ UNCHANGED <<clock, timeZone, extension, lmTools, commands,
                   subscriptions, dateReads, shown>>

Next ==
    \/ Tick
    \/ activate
    \/ deactivate
    \/ disposeSubscriptions
    \/ helloWorldCommand
    \/ \E q \in Queries : selectTool(q)
    \/ \E i \in 1..Len(calls) : cancel(i)
    \/ \E i \in 1..Len(calls) : prepareInvocation(i)
    \/ \E i \in 1..Len(calls) : invoke(i)
    \/ \E i \in 1..Len(calls) : deliver(i)

Spec == Init /\ [][Next]_vars

(***************************************************************************)
(* The same host serving one call at a time, the language model generating *)
(* any query of the declared shape.                                        *)
(***************************************************************************)
selectToolIdle(q) ==
    /\ \A j \in 1..Len(calls) : calls[j].phase = "delivered"
    /\ selectTool(q)

NextQuery ==
    \/ Tick
    \/ activate
    \/ \E q \in QueryShape : selectToolIdle(q)
    \/ \E i \in 1..Len(calls) : cancel(i)
    \/ \E i \in 1..Len(calls) : prepareInvocation(i)
    \/ \E i \in 1..Len(calls) : invoke(i)
    \/ \E i \in 1..Len(calls) : deliver(i)

SpecQuery == Init /\ [][NextQuery]_vars

(***************************************************************************)
(* The tool invocation flow alone, calls overlapping, with the scheduling  *)
(* of the extension host: a method the host has to call is called, and an  *)
(* async body without await runs to its return on the host's single thread.*)
(* Nothing obliges the clock to advance, the caller to cancel, the model   *)
(* to select the tool or the host to hand a result on.  The queries are of *)
(* the input type the class is declared with, LanguageModelTool<{}>.       *)
(***************************************************************************)
NextFlow ==
    \/ Tick
    \/ activate
    \/ selectTool(EmptyQuery)
    \/ \E i \in 1..Len(calls) : cancel(i)
    \/ \E i \in 1..Len(calls) : prepareInvocation(i)
    \/ \E i \in 1..Len(calls) : invoke(i)
    \/ \E i \in 1..Len(calls) : deliver(i)

FairFlow ==
    \A i \in 1..MaxCalls :
       /\ WF_vars(i \in 1..Len(calls) /\ prepareInvocation(i))
       /\ WF_vars(i \in 1..Len(calls) /\ invoke(i))

SpecFlow == Init /\ [][NextFlow]_vars /\ FairFlow

TypeOK ==
    /\ clock \in Int
    /\ timeZone \in TimeZones
    /\ extension \in {"inactive", "active", "deactivated"}
    /\ Len(calls) <= MaxCalls
    /\ \A i \in 1..Len(calls) :
          /\ calls[i].phase \in Phases
          /\ calls[i].phase # "delivered" => calls[i].input \in QueryShape
    /\ dateReads \in 0..MaxCalls
    /\ Len(shown) <= MaxCommands

(***************************************************************************)
(* Reading a result.                                                       *)
(***************************************************************************)
Settled(call) == call.phase = "invoked"

\* The text of the single part of a call's result.
ResultText(call) == call.promise[1].value.content[1].value

\* The fields of a text in the en-US long layout
\*   <prefix><weekday>, <month> <day>, <year> at <hour>:<minute>:<second> ...
\* and what follows the seconds.
FieldsOf(text) ==
    [weekday |-> text[2], month  |-> text[4],  day    |-> text[6],
     year    |-> text[8], hour   |-> text[10], minute |-> text[12],
     second  |-> text[14]]

DayPeriods == {"AM", "PM"}

DayPeriodsIn(text) == {text[k] : k \in 15..Len(text)} \cap DayPeriods

ZonesIn(text) == {text[k] : k \in 15..Len(text)} \cap ZoneNames

\* The fields of an instant on a 12-hour wall clock in a zone.
WallClock12(t, tz) ==
    LET f == DateFields(t, tz)
    IN  [weekday |-> WeekdayNames[f.weekday + 1],
         month   |-> MonthNames[f.month],
         day     |-> ToString(f.day),
         year    |-> ToString(f.year),
         hour    |-> TwoDigit(IF f.hour % 12 = 0 THEN 12 ELSE f.hour % 12),
         minute  |-> TwoDigit(f.minute),
         second  |-> TwoDigit(f.second)]

\* Call i executes invoke in this step.
InvokeStep(i) == calls[i].phase \in {"selected", "prepared"} /\ calls'[i].phase = "invoked"

\* Call i executes prepareInvocation in this step.
PrepareStep(i) == calls[i].phase = "selected" /\ calls'[i].phase = "prepared"

(***************************************************************************)
(* C1: every invoke returns a text built from the clock value of the very  *)
(* step that executes it: weekday, month, day, year, hour, minute, second  *)
(* and AM/PM of the text are those of the instant the clock shows then.    *)
(***************************************************************************)
C1_ResultFromOwnClockRead ==
    [][\A i \in 1..Len(calls) :
         InvokeStep(i) =>
            /\ calls'[i].promise[1].state = "fulfilled"
            /\ FieldsOf(ResultText(calls'[i])) = WallClock12(clock, timeZone)
            /\ DayPeriodsIn(ResultText(calls'[i]))
                 = {IF DateFields(clock, timeZone).hour < 12 THEN "AM" ELSE "PM"}]_vars

\* A call has returned after the clock moved on from the instant of loading.
C1_Witness ==
    \E i \in 1..Len(calls) :
       /\ Settled(calls[i])
       /\ calls[i].readAt[1] \notin StartInstants
       /\ FieldsOf(ResultText(calls[i])).second = "00"

(***************************************************************************)
(* C2: the result contains a timezone abbreviation or offset when          *)
(* includeTimezone is true, and none when it is false or unset.            *)
(***************************************************************************)
C2_TimezoneFollowsFlag ==
    \A i \in 1..Len(calls) :
       Settled(calls[i]) =>
          IF calls[i].input.includeTimezone = <<TRUE>>
          THEN ZonesIn(ResultText(calls[i])) # {}
          ELSE ZonesIn(ResultText(calls[i])) = {}

(***************************************************************************)
(* C3: the hour field follows the query's format: with the 12-hour format  *)
(* it is in 01..12 and AM/PM is present; with the 24-hour format it is the *)
(* hour of the day in 00..23.                                              *)
(***************************************************************************)
C3_HourFollowsFormat ==
    \A i \in 1..Len(calls) :
       Settled(calls[i]) =>
          LET text == ResultText(calls[i])
              h    == DateFields(calls[i].readAt[1], timeZone).hour
          IN  /\ calls[i].input.format = <<"12h">> =>
                    /\ FieldsOf(text).hour \in {TwoDigit(n) : n \in 1..12}
                    /\ DayPeriodsIn(text) # {}
              /\ calls[i].input.format = <<"24h">> =>
                    FieldsOf(text).hour = TwoDigit(h)

(***************************************************************************)
(* C4: a call whose cancellation signal was raised before its execution    *)
(* completed never yields a result: its promise is not fulfilled.          *)
(***************************************************************************)
C4_CancelledYieldsNoResult ==
    [][\A i \in 1..Len(calls) :
         (/\ calls[i].phase \in {"selected", "prepared"}
          /\ calls[i].token.isCancellationRequested)
            => (~Settled(calls'[i]) \/ calls'[i].promise[1].state # "fulfilled")]_vars

(***************************************************************************)
(* C5: prepareInvocation can run for every selected call whatever its      *)
(* query, returns the message 'Getting current time', and reads no clock:  *)
(* only calls that were executed account for clock reads.                  *)
(***************************************************************************)
C5_PrepareIsDescriptive ==
    /\ \A i \in 1..Len(calls) :
          /\ calls[i].phase = "selected" => ENABLED prepareInvocation(i)
          /\ calls[i].phase = "prepared" =>
                calls[i].prepared[1].invocationMessage = "Getting current time"
    /\ dateReads <= Cardinality({i \in 1..Len(calls) :
                                    calls[i].phase \in {"invoked", "delivered"}})

\* Every query, the empty one included, has been prepared before any clock read.
C5_Witness ==
    /\ Len(calls) >= 2
    /\ \A i \in 1..Len(calls) : calls[i].phase = "prepared"
    /\ calls[1].input = EmptyQuery
    /\ calls[2].input # EmptyQuery
    /\ dateReads = 0

(***************************************************************************)
(* C6: no result is reused: there are as many clock reads as executions,   *)
(* and two executions at instants whose seconds differ return texts whose  *)
(* seconds fields differ.                                                  *)
(***************************************************************************)
C6_NeverCached ==
    /\ dateReads = Cardinality({i \in 1..Len(calls) :
                                   calls[i].phase \in {"invoked", "delivered"}})
    /\ \A i, j \in 1..Len(calls) :
          (/\ Settled(calls[i])
           /\ Settled(calls[j])
           /\ calls[i].readAt[1] % 60 # calls[j].readAt[1] % 60)
             => FieldsOf(ResultText(calls[i])).second
                   # FieldsOf(ResultText(calls[j])).second

\* Two executions of the same query one second apart.
C6_Witness ==
    \E i, j \in 1..Len(calls) :
       /\ Settled(calls[i])
       /\ Settled(calls[j])
       /\ calls[i].input = calls[j].input
       /\ calls[j].readAt[1] = calls[i].readAt[1] + 1

(***************************************************************************)
(* C7: calls in flight together do not affect one another: the result of   *)
(* an execution is the one invoke computes from that call's own query,     *)
(* token and clock read, a step of prepareInvocation or invoke changes no  *)
(* state but the record of its call and the count of clock reads, and no   *)
(* step changes the records of two calls.                                  *)
(***************************************************************************)
C7_CallsIndependent ==
    [][/\ \A i \in 1..Len(calls) :
            InvokeStep(i) =>
               calls'[i].promise =
                  <<Fulfilled(InvokeBody(calls[i].input, calls[i].token,
                                         clock, timeZone))>>
       /\ \A i \in 1..Len(calls) :
            (PrepareStep(i) \/ InvokeStep(i)) =>
               UNCHANGED <<clock, timeZone, extension, lmTools, commands,
                           subscriptions, shown>>
       /\ \A i, j \in 1..Len(calls) :
            (i # j /\ calls'[i] # calls[i]) => calls'[j] = calls[j]]_vars

\* Two calls in flight together, the one selected later executed first, with
\* different queries and one of them cancelled.
C7_Witness ==
    /\ Len(calls) >= 2
    /\ calls[1].phase = "invoked"
    /\ calls[2].phase = "invoked"
    /\ calls[2].readAt[1] < calls[1].readAt[1]
    /\ calls[1].input # calls[2].input
    /\ calls[1].token.isCancellationRequested
    /\ ~calls[2].token.isCancellationRequested

(***************************************************************************)
(* C8: the empty query executed when a UTC clock reads Monday, March 3,    *)
(* 2025, 14:05:09 yields Monday / March / 3 / 2025 / 02 / 05 / 09 / PM /   *)
(* UTC.                                                                    *)
(***************************************************************************)
C8_Example ==
    \A i \in 1..Len(calls) :
       (/\ Settled(calls[i])
        /\ calls[i].input = EmptyQuery
        /\ calls[i].readAt = <<1741010709>>
        /\ timeZone = "UTC")
          => /\ FieldsOf(ResultText(calls[i]))
                  = [weekday |-> "Monday", month |-> "March", day |-> "3",
                     year |-> "2025", hour |-> "02", minute |-> "05",
                     second |-> "09"]
             /\ DayPeriodsIn(ResultText(calls[i])) = {"PM"}
             /\ ZonesIn(ResultText(calls[i])) = {"UTC"}

C8_Witness ==
    \E i \in 1..Len(calls) :
       /\ Settled(calls[i])
       /\ calls[i].input = EmptyQuery
       /\ calls[i].readAt = <<1741010709>>
       /\ timeZone = "UTC"

(***************************************************************************)
(* C9: once activate has returned, the tool is registered under            *)
(* 'get_current_time', the command under 'example-lm-tools.helloWorld',    *)
(* and context.subscriptions holds the disposable of each registration.    *)
(***************************************************************************)
C9_ActivateRegisters ==
    [][(extension = "inactive" /\ extension' = "active") =>
          /\ \E r \in lmTools' : r.name = "get_current_time"
          /\ \E r \in commands' : r.command = "example-lm-tools.helloWorld"
          /\ \E k \in 1..Len(subscriptions') :
                subscriptions'[k] = Disposable("tool", "get_current_time")
          /\ \E k \in 1..Len(subscriptions') :
                subscriptions'[k] = Disposable("command", "example-lm-tools.helloWorld")]_vars

C9_Witness ==
    /\ extension = "active"
    /\ Len(subscriptions) = 2
    /\ Cardinality(lmTools) = 1
    /\ Cardinality(commands) = 1

\* A text that has every field of the long en-US layout, each well formed.
CompleteText(text) ==
    /\ Len(text) >= 14
    /\ LET f == FieldsOf(text)
       IN  /\ f.weekday \in {WeekdayNames[k] : k \in 1..7}
           /\ f.month \in {MonthNames[k] : k \in 1..12}
           /\ f.day \in {ToString(d) : d \in 1..31}
           /\ f.year \in {ToString(y) : y \in 1970..2100}
           /\ f.hour \in {TwoDigit(h) : h \in 0..23}
           /\ f.minute \in {TwoDigit(m) : m \in 0..59}
           /\ f.second \in {TwoDigit(s) : s \in 0..59}

(***************************************************************************)
(* C11: the step that executes invoke settles the call's promise once, as  *)
(* a fulfilled promise whose result has every field of the date and time   *)
(* or as a rejected one that carries a message; it makes at most one       *)
(* attempt (one clock read), and a settled promise is never settled again. *)
(***************************************************************************)
C11_OneCompleteOutcome ==
    [][\A i \in 1..Len(calls) :
         /\ InvokeStep(i) =>
               /\ Len(calls'[i].promise) = 1
               /\ calls'[i].promise[1].state \in {"fulfilled", "rejected"}
               /\ calls'[i].promise[1].state = "fulfilled" =>
                     /\ calls'[i].promise[1].value.content # << >>
                     /\ \A k \in 1..Len(calls'[i].promise[1].value.content) :
                           CompleteText(calls'[i].promise[1].value.content[k].value)
               /\ calls'[i].promise[1].state = "rejected" =>
                     calls'[i].promise[1].reason # ""
               /\ dateReads' - dateReads <= 1
         /\ Settled(calls[i]) =>
               \/ calls'[i].phase = "delivered"
               \/ /\ calls'[i].promise = calls[i].promise
                  /\ calls'[i].readAt = calls[i].readAt]_vars

\* Two calls were executed, each with its own attempt, in both environments'
\* layouts: one of them at the last second of a year.
C11_Witness ==
    /\ Len(calls) >= 2
    /\ \A i \in 1..2 : Settled(calls[i]) /\ calls[i].promise[1].state = "fulfilled"
    /\ dateReads = 2
    /\ FieldsOf(ResultText(calls[1])).second = "59"

\* The query shape with the format values as the claim words them.
C12_WordedShape ==
    [format          : {<< >>, <<"12-hour">>, <<"24-hour">>},
     includeTimezone : {<< >>, <<TRUE>>, <<FALSE>>}]

\* Every query of the declared shape in flight passes prepareInvocation and
\* invoke unexamined: neither is ever disabled for it, and invoke fulfils.
C12_Accepted(call) ==
    /\ call.phase = "prepared" => HostMayInvoke(call, FALSE)
    /\ call.phase = "invoked" => call.promise[1].state = "fulfilled"

(***************************************************************************)
(* C12 as worded: every query of the declared shape that reaches the tool  *)
(* has a format, when it has one, of '12-hour' or '24-hour', and the tool  *)
(* accepts it.                                                             *)
(***************************************************************************)
C12_ShapeAsWorded ==
    \A i \in 1..Len(calls) :
       calls[i].phase # "delivered" =>
          /\ calls[i].input \in C12_WordedShape
          /\ C12_Accepted(calls[i])

(***************************************************************************)
(* C12 (amended): the declared query shape is an optional format with the  *)
(* values '12h' or '24h' and an optional boolean includeTimezone; the tool *)
(* accepts every query of that shape, the empty query included, without    *)
(* validation: prepareInvocation and invoke run for it and invoke fulfils. *)
(***************************************************************************)
C12_AcceptsDeclaredShape ==
    \A i \in 1..Len(calls) :
       calls[i].phase # "delivered" =>
          /\ calls[i].input.format \in {<< >>, <<"12h">>, <<"24h">>}
          /\ calls[i].input.includeTimezone \in {<< >>, <<TRUE>>, <<FALSE>>}
          /\ calls[i].phase = "selected" => ENABLED prepareInvocation(i)
          /\ calls[i].phase = "prepared" => ENABLED invoke(i)
          /\ C12_Accepted(calls[i])

\* A query that sets the flag and no format has been executed and fulfilled.
C12_Witness ==
    \E i \in 1..Len(calls) :
       /\ Settled(calls[i])
       /\ calls[i].input = [format |-> << >>, includeTimezone |-> <<FALSE>>]
       /\ calls[i].promise[1].state = "fulfilled"

(***************************************************************************)
(* C13: for every query, the value prepareInvocation returned carries an   *)
(* invocation message and no confirmationMessages: it holds that one       *)
(* property only, so the host never has a confirmation to ask for.         *)
(***************************************************************************)
C13_NoConfirmation ==
    \A i \in 1..Len(calls) :
       calls[i].phase \in {"prepared", "invoked"} =>
          /\ Len(calls[i].prepared) = 1
          /\ DOMAIN calls[i].prepared[1] = {"invocationMessage"}
          /\ calls[i].prepared[1].invocationMessage # ""
          /\ ~NeedsConfirmation(calls[i])

\* A query that sets both properties has been prepared, its caller having
\* cancelled before.
C13_Witness ==
    \E i \in 1..Len(calls) :
       /\ calls[i].phase = "prepared"
       /\ calls[i].input = [format |-> <<"24h">>, includeTimezone |-> <<TRUE>>]
       /\ calls[i].token.isCancellationRequested

(***************************************************************************)
(* C14: the documented class and the minimal class of extension.ts agree:  *)
(* whatever the query, the token and the clock, the value the documented   *)
(* prepareInvocation returns in a step is the value the minimal one        *)
(* returns for the same arguments, and the promise the documented invoke   *)
(* returns is fulfilled with the result of the minimal invoke at the same  *)
(* clock value.                                                            *)
(***************************************************************************)
C14_VersionsAgree ==
    [][\A i \in 1..Len(calls) :
         /\ PrepareStep(i) =>
               calls'[i].prepared =
                  <<MinimalPreparedToolInvocation(calls[i].input, calls[i].token)>>
         /\ InvokeStep(i) =>
               calls'[i].promise =
                  <<Fulfilled(MinimalInvokeBody(calls[i].input, calls[i].token,
                                                NewDate(clock), timeZone))>>]_vars

\* A cancelled call with a one-property query was executed after the clock
\* had moved on from the instant of loading.
C14_Witness ==
    \E i \in 1..Len(calls) :
       /\ Settled(calls[i])
       /\ calls[i].input = [format |-> <<"12h">>, includeTimezone |-> << >>]
       /\ calls[i].token.isCancellationRequested
       /\ calls[i].readAt[1] \notin StartInstants

(***************************************************************************)
(* C15: every call of prepareInvocation and of invoke returns: a call the  *)
(* host has selected is eventually prepared, and a prepared call is        *)
(* eventually executed with its promise settled, whatever the other calls  *)
(* do and whether or not the clock advances, a caller cancels or a result  *)
(* is delivered.                                                           *)
(***************************************************************************)
C15_CallsReturn ==
    \A i \in 1..MaxCalls :
       /\ (i <= Len(calls) /\ calls[i].phase = "selected")
             ~> (i <= Len(calls) /\ calls[i].phase # "selected")
       /\ (i <= Len(calls) /\ calls[i].phase = "prepared")
             ~> (/\ i <= Len(calls)
                 /\ calls[i].phase \in {"invoked", "delivered"})

\* Two overlapping calls have both returned, the first with its caller's
\* cancellation raised, and neither result has been handed on.
C15_Witness ==
    /\ Len(calls) >= 2
    /\ calls[1].phase = "invoked"
    /\ calls[2].phase = "invoked"
    /\ calls[1].token.isCancellationRequested

(***************************************************************************)
(* C16: a step that shows an information message shows exactly one, the    *)
(* text 'Hello World from Example LM Tools!', whatever the state it runs   *)
(* in, and changes nothing else: not the registrations, the subscriptions, *)
(* the activation state or any tool call.                                  *)
(***************************************************************************)
C16_HelloWorldShowsOnce ==
    [][shown' # shown =>
          /\ shown' = Append(shown, "Hello World from Example LM Tools!")
          /\ UNCHANGED <<clock, timeZone, extension, lmTools, commands,
                         subscriptions, calls, dateReads>>]_vars

\* The command has run twice, the second time with a tool call executed and
\* its result pending.
C16_Witness ==
    /\ Len(shown) = 2
    /\ shown[1] = shown[2]
    /\ \E i \in 1..Len(calls) : Settled(calls[i])

(***************************************************************************)
(* C17: two calls that read the same clock value have equal results, and   *)
(* any two prepared calls have equal prepared values, whatever query each  *)
(* was given and whether or not its cancellation was requested.            *)
(***************************************************************************)
C17_InputAndTokenIgnored ==
    \A i, j \in 1..Len(calls) :
       /\ (/\ calls[i].phase \in {"prepared", "invoked"}
           /\ calls[j].phase \in {"prepared", "invoked"})
             => calls[i].prepared = calls[j].prepared
       /\ (/\ Settled(calls[i])
           /\ Settled(calls[j])
           /\ calls[i].readAt = calls[j].readAt)
             => calls[i].promise = calls[j].promise

\* Two calls executed at the same instant: one with the flag set and its
\* cancellation requested, one with the flag cleared and no cancellation.
C17_Witness ==
    \E i, j \in 1..Len(calls) :
       /\ Settled(calls[i])
       /\ Settled(calls[j])
       /\ calls[i].readAt = calls[j].readAt
       /\ calls[i].input.includeTimezone = <<TRUE>>
       /\ calls[j].input.includeTimezone = <<FALSE>>
       /\ calls[i].token.isCancellationRequested
       /\ ~calls[j].token.isCancellationRequested

(***************************************************************************)
(* C18: the result of every fulfilled invoke holds exactly one part, a     *)
(* text part whose value is 'The current date and time is: ' followed by   *)
(* the time string formatted from the clock value the call read, and       *)
(* nothing else.                                                           *)
(***************************************************************************)
C18_OneTextPart ==
    \A i \in 1..Len(calls) :
       (Settled(calls[i]) /\ calls[i].promise[1].state = "fulfilled") =>
          LET result == calls[i].promise[1].value
          IN  /\ DOMAIN result = {"content"}
              /\ Len(result.content) = 1
              /\ DOMAIN result.content[1] = {"value"}
              /\ Len(result.content[1].value) > 1
              /\ Head(result.content[1].value) = "The current date and time is: "
              /\ Tail(result.content[1].value)
                    = toLocaleString(calls[i].readAt[1], timeZone, InvokeOptions)
              /\ Render(Tail(result.content[1].value)) # ""

\* Two fulfilled calls of different queries whose time strings differ.
C18_Witness ==
    \E i, j \in 1..Len(calls) :
       /\ Settled(calls[i])
       /\ Settled(calls[j])
       /\ calls[i].input # calls[j].input
       /\ Tail(ResultText(calls[i])) # Tail(ResultText(calls[j]))

\* What is registered with the host and the disposables that release it.
C19_Held == {Disposable("tool", r.name) : r \in lmTools}
               \cup {Disposable("command", r.command) : r \in commands}

(***************************************************************************)
(* C19: a step of prepareInvocation or invoke leaves the registrations and *)
(* context.subscriptions as they were; the step that deactivates changes   *)
(* nothing but the activation state; after every step, what is registered  *)
(* is what the at most two disposables in context.subscriptions release,   *)
(* so that once the subscriptions are disposed nothing is left registered. *)
(***************************************************************************)
C19_NothingToRelease ==
    [][/\ (\E i \in 1..Len(calls) : PrepareStep(i) \/ InvokeStep(i)) =>
             UNCHANGED <<extension, lmTools, commands, subscriptions>>
       /\ (extension = "active" /\ extension' = "deactivated") =>
             UNCHANGED <<clock, timeZone, lmTools, commands, subscriptions,
                         calls, dateReads, shown>>
       /\ C19_Held' = {subscriptions'[k] : k \in 1..Len(subscriptions')}
       /\ Len(subscriptions') \in {0, 2}
       /\ (subscriptions # << >> /\ subscriptions' = << >>) =>
             (lmTools' = {} /\ commands' = {})]_vars

\* After a call was executed the extension was deactivated and its two
\* subscriptions disposed: nothing is registered any more.
C19_Witness ==
    /\ extension = "deactivated"
    /\ subscriptions = << >>
    /\ lmTools = {}
    /\ commands = {}
    /\ dateReads >= 1

====
